---- MODULE Spec2Model ----
(***************************************************************************)
(* Model of the dual-zone ClickHouse store for a Subsquid processor:       *)
(* src/src/core/ClickhouseDatabase.ts (ClickhouseDatabase and the          *)
(* ValidBlocksManager class in the same file).                             *)
(*                                                                         *)
(* The database is modelled as a sequentially consistent store: a read     *)
(* sees every earlier write, ReplacingMergeTree tables read with FINAL     *)
(* return the latest revision of a key, and ALTER TABLE ... DELETE takes   *)
(* effect at once (the code's comments assume this).                       *)
(***************************************************************************)
EXTENDS Integers, Sequences, FiniteSets, TLC

\* ------------------------------------------------------------------ bounds
\* Block heights range over 0..MaxHeight.
MaxHeight == 3
\* Option hotBlocksDepth (also the finalityDepth of the ValidBlocksManager).
HotBlocksDepth == 2
\* Longest newBlocks list of one hot batch.
MaxBatch == 2
\* Number of competing blocks (forks) the producer can deliver per height.
NumForks == 2

\* A run has at most MaxUpsets upsets: a hot batch that goes back (first block
\* at or below the acknowledged head), a restart after the first, a processor
\* that falls back from the chain tip, or an operation in which a database
\* command throws.
MaxUpsets == 1

\* Option migrationInterval.
MigrationInterval == 2

\* The second processor receives the blocks 0..PeerMaxHeight.
PeerMaxHeight == 1

\* A table's rows of one batch are inserted in at most MaxChunks chunks.
MaxChunks == 3

\* Attempts per chunk.
MaxAttempts == 3

\* A migrationInterval that hotBlocksDepth is not a multiple of.
LongInterval == 3

\* The hot-supported tables, in discovery order; the first is the
\* representative table of the migration engine.
Tables == {"t1", "t2"}
RepTable == "t1"

Heights == 0..MaxHeight
Forks == 1..NumForks

\* A block hash names one block: blocks of different heights never share it.
Hash(h, v) == <<h, v>>
EmptyHash == <<>>
Block(h, v) == [height |-> h, hash |-> Hash(h, v)]

\* ----------------------------------------------------------------- helpers
MaxOf(S) == CHOOSE x \in S : \A y \in S : y <= x

Restrict(f, S) == [x \in S |-> f[x]]

Put(f, k, v) == [x \in DOMAIN f \cup {k} |-> IF x = k THEN v ELSE f[x]]

EmptyMap == [x \in {} |-> EmptyHash]

\* b => b.height > h / b.height <= h over a block list (Array.filter)
FilterAbove(seq, h) == SelectSeq(seq, LAMBDA b : b.height > h)
FilterUpTo(seq, h) == SelectSeq(seq, LAMBDA b : b.height <= h)

\* Array.slice(-n)
SliceLast(seq, n) == IF Len(seq) > n THEN SubSeq(seq, Len(seq) - n + 1, Len(seq)) ELSE seq

\* ------------------------------------------------------------------- state
VARIABLES
  ready,                     \* connect() has returned on the current object
  hotBlocks,                 \* this.hotBlocks
  finalizedHeight,           \* this.finalizedHeight
  validBlocks,               \* ValidBlocksManager.validBlocks (memory)
  isAtChainTip,              \* this.isAtChainTip
  blocksSinceLastMigration,  \* this.blocksSinceLastMigration
  lastMigrationHeight,       \* this.lastMigrationHeight
  live,                      \* status table row of this processor: <<>> or <<row>>
  coldStatus,                \* cold status table row: <<>> or <<row>>
  regDb,                     \* valid_blocks table rows of this processor
  hot,                       \* hot[t]: rows of {network}_hot_{t}
  cold,                      \* cold[t]: rows of {network}_cold_{t}
  ingested,                  \* history: ingested[t] = every row ever flushed for t
  options,                   \* the constructor's options (fixed for a run)
  peer,                      \* a second processor (another processorId) on the same database
  flush,                     \* the insert loop of flushStore for one table
  used,                      \* history: the number of upsets so far
  last                       \* history: the operation that led to this state

vars == <<ready, hotBlocks, finalizedHeight, validBlocks, isAtChainTip,
          blocksSinceLastMigration, lastMigrationHeight, live, coldStatus,
          regDb, hot, cold, ingested, options, peer, flush, used, last>>

\* The program state as one record, so that a handler is a function on it.
St == [hotBlocks |-> hotBlocks, finalizedHeight |-> finalizedHeight,
       validBlocks |-> validBlocks, isAtChainTip |-> isAtChainTip,
       blocksSinceLastMigration |-> blocksSinceLastMigration,
       lastMigrationHeight |-> lastMigrationHeight,
       live |-> live, coldStatus |-> coldStatus, regDb |-> regDb,
       hot |-> hot, cold |-> cold, ingested |-> ingested, options |-> options]

Becomes(s) ==
  /\ hotBlocks' = s.hotBlocks
  /\ finalizedHeight' = s.finalizedHeight
  /\ validBlocks' = s.validBlocks
  /\ isAtChainTip' = s.isAtChainTip
  /\ blocksSinceLastMigration' = s.blocksSinceLastMigration
  /\ lastMigrationHeight' = s.lastMigrationHeight
  /\ live' = s.live
  /\ coldStatus' = s.coldStatus
  /\ regDb' = s.regDb
  /\ hot' = s.hot
  /\ cold' = s.cold
  /\ ingested' = s.ingested
  /\ options' = s.options
  /\ peer' = peer
  /\ flush' = flush

Starts(s) ==
  /\ hotBlocks = s.hotBlocks
  /\ finalizedHeight = s.finalizedHeight
  /\ validBlocks = s.validBlocks
  /\ isAtChainTip = s.isAtChainTip
  /\ blocksSinceLastMigration = s.blocksSinceLastMigration
  /\ lastMigrationHeight = s.lastMigrationHeight
  /\ live = s.live
  /\ coldStatus = s.coldStatus
  /\ regDb = s.regDb
  /\ hot = s.hot
  /\ cold = s.cold
  /\ ingested = s.ingested
  /\ options = s.options

NoRows == [t \in Tables |-> {}]

\* The options of lines 94-105 that vary: supportHotBlocks, autoMigrate,
\* migrationOnFinality, and whether migrationHooks holds a beforeMigration and
\* an afterMigration hook (never a customMigration).
Options(supportHotBlocks, autoMigrate, migrationOnFinality, hooks) ==
  [supportHotBlocks |-> supportHotBlocks, autoMigrate |-> autoMigrate,
   migrationOnFinality |-> migrationOnFinality, hooks |-> hooks,
   migrationInterval |-> MigrationInterval]

\* The defaults of the constructor.
DefaultOptions == Options(TRUE, TRUE, FALSE, FALSE)

\* The configurations of a run: the defaults, each option changed alone, the
\* hooks together with migrationOnFinality, and the longer migrationInterval.
Configs ==
  {DefaultOptions, Options(FALSE, TRUE, FALSE, FALSE), Options(TRUE, FALSE, FALSE, FALSE),
   Options(TRUE, TRUE, TRUE, FALSE), Options(TRUE, TRUE, FALSE, TRUE),
   Options(TRUE, TRUE, TRUE, TRUE),
   [DefaultOptions EXCEPT !.migrationInterval = LongInterval]}

\* Field initialisers and constructor of ClickhouseDatabase, on database db.
Constructed(db) ==
  [hotBlocks |-> <<>>, finalizedHeight |-> -1, validBlocks |-> EmptyMap,
   isAtChainTip |-> FALSE, blocksSinceLastMigration |-> 0,
   lastMigrationHeight |-> -1,
   live |-> db.live, coldStatus |-> db.coldStatus, regDb |-> db.regDb,
   hot |-> db.hot, cold |-> db.cold, ingested |-> db.ingested,
   options |-> db.options]

\* ------------------------------------------------- ValidBlocksManager (A)
\* The registry is the pair [mem, db]: the in-memory map and the table rows.
pruneOldBlocks(r, currentHeight) ==
  LET threshold == currentHeight - HotBlocksDepth
      pruned == {h \in DOMAIN r.mem : h < threshold}
  IN [mem |-> Restrict(r.mem, DOMAIN r.mem \ pruned),
      db |-> IF pruned # {}
             THEN Restrict(r.db, {h \in DOMAIN r.db : h >= threshold})
             ELSE r.db]

addBlock(r, height, hash) ==
  pruneOldBlocks([mem |-> Put(r.mem, height, hash),
                  db |-> Put(r.db, height, hash)], height)

\* Map.set for each block in order: the last block of a height wins.
SetAll(f, blocks) ==
  LET hs == {blocks[i].height : i \in DOMAIN blocks}
      lastAt(h) == MaxOf({i \in DOMAIN blocks : blocks[i].height = h})
  IN [x \in DOMAIN f \cup hs |-> IF x \in hs THEN blocks[lastAt(x)].hash ELSE f[x]]

addBlocks(r, blocks) ==
  IF Len(blocks) = 0 THEN r
  ELSE pruneOldBlocks([mem |-> SetAll(r.mem, blocks), db |-> SetAll(r.db, blocks)],
                      MaxOf({blocks[i].height : i \in DOMAIN blocks}))

\* A faulty handleReorg that removes the entries above reorgHeight only.
handleReorgAbove(r, reorgHeight, newBlocks) ==
  LET removed == [mem |-> Restrict(r.mem, {h \in DOMAIN r.mem : h <= reorgHeight}),
                  db |-> Restrict(r.db, {h \in DOMAIN r.db : h <= reorgHeight})]
  IN IF Len(newBlocks) > 0 THEN addBlocks(removed, newBlocks) ELSE removed

handleReorg(r, reorgHeight, newBlocks) ==
  LET removed == [mem |-> Restrict(r.mem, {h \in DOMAIN r.mem : h < reorgHeight}),
                  db |-> Restrict(r.db, {h \in DOMAIN r.db : h < reorgHeight})]
  IN IF Len(newBlocks) > 0 THEN addBlocks(removed, newBlocks) ELSE removed

\* handleReorg that ends after its ALTER TABLE ... DELETE: addBlocks throws,
\* or the process dies before it.
handleReorgInterrupted(r, reorgHeight) ==
  [mem |-> Restrict(r.mem, {h \in DOMAIN r.mem : h < reorgHeight}),
   db |-> Restrict(r.db, {h \in DOMAIN r.db : h < reorgHeight})]

isValidBlock(r, height, hash) == height \in DOMAIN r.mem /\ r.mem[height] = hash

\* Whether a row {height, hash} satisfies the WHERE fragment of
\* buildValidBlocksFilter: below the finality threshold, or named by the
\* registry in memory.
buildValidBlocksFilter(r, currentHeight, row) ==
  \/ row.height <= currentHeight - HotBlocksDepth
  \/ row.height \in DOMAIN r.mem /\ r.mem[row.height] = row.hash

clear(r) == [mem |-> EmptyMap, db |-> EmptyMap]

Reg(s) == [mem |-> s.validBlocks, db |-> s.regDb]
WithReg(s, r) == [s EXCEPT !.validBlocks = r.mem, !.regDb = r.db]

\* ------------------------------------------------------ Checkpoint Store (B)
\* state.top.map(b => ({height, hash})): only the two fields are written.
Sanitize(top) == [i \in DOMAIN top |-> [height |-> top[i].height, hash |-> top[i].hash]]

\* The row is written with this.finalizedHeight, not with a field of `state`.
saveStatus(s, state) ==
  [s EXCEPT !.live = <<[height |-> state.height, hash |-> state.hash,
                        hot_blocks |-> Sanitize(state.top),
                        finalized_height |-> s.finalizedHeight]>>]

\* finalizedHeight is <<>> for undefined: `row.finalized_height ? ... : undefined`.
getLastProcessedBlock(s) ==
  IF s.live = <<>>
  THEN [height |-> -1, hash |-> EmptyHash, top |-> <<>>, finalizedHeight |-> <<>>]
  ELSE LET row == s.live[1]
       IN [height |-> row.height, hash |-> row.hash, top |-> row.hot_blocks,
           finalizedHeight |-> IF row.finalized_height # 0
                               THEN <<row.finalized_height>> ELSE <<>>]

\* state.finalizedHeight ?? state.height
FinalizedOrHeight(state) ==
  IF state.finalizedHeight = <<>> THEN state.height ELSE state.finalizedHeight[1]

getColdStatus(s) == s.coldStatus

updateColdStatus(s, height, hash) ==
  [s EXCEPT !.coldStatus = <<[height |-> height, hash |-> hash]>>]

\* ------------------------------------------------ Zone Router, Ingest (C, D)
\* The zone of getTableName: 'hot_' at chain tip, 'cold_' while catching up.
\* The callback of a batch produced one row {height, hash} of block b for each
\* table of tabs.
\* ------------------------------------------------- the insert loop of flush
\* What one client.insert of a chunk may do: succeed, throw a transient
\* transport error (EPIPE, ECONNRESET, ETIMEDOUT, ECONNREFUSED, 'socket hang
\* up'), or throw any other error.
InsertOutcomes == {"ok", "transient", "fatal"}

\* The loop over the chunks of one table at its start: `chunks` chunks to
\* write, the first attempt of the first chunk next, nothing sent so far.
\* log is history: one entry per client.insert.
NewFlush(chunks) ==
  [chunks |-> chunks, chunk |-> 1, attempt |-> 1, log |-> <<>>,
   status |-> IF chunks = 0 THEN "done" ELSE "running"]

NoFlush == NewFlush(0)

\* A loop that also retries an error that is not transient.
insertAttemptRetryingAll(f, outcome) ==
  LET logged == [f EXCEPT !.log = Append(@, [chunk |-> f.chunk,
                                             attempt |-> f.attempt,
                                             outcome |-> outcome])]
  IN IF outcome = "ok"
     THEN [logged EXCEPT !.chunk = @ + 1, !.attempt = 1,
                         !.status = IF f.chunk = f.chunks THEN "done" ELSE "running"]
     ELSE IF f.attempt < MaxAttempts
     THEN [logged EXCEPT !.attempt = @ + 1]
     ELSE [logged EXCEPT !.status = "failed"]

\* One pass of `for (let attempt = 1; attempt <= 3; attempt++)`: the insert
\* of the current chunk and what the try/catch does with its outcome.
insertAttempt(f, outcome) ==
  LET logged == [f EXCEPT !.log = Append(@, [chunk |-> f.chunk,
                                             attempt |-> f.attempt,
                                             outcome |-> outcome])]
      isRetryable == outcome = "transient"
  IN IF outcome = "ok"
     THEN [logged EXCEPT !.chunk = @ + 1, !.attempt = 1,
                         !.status = IF f.chunk = f.chunks THEN "done" ELSE "running"]
     ELSE IF isRetryable /\ f.attempt < MaxAttempts
     THEN [logged EXCEPT !.attempt = @ + 1]
     ELSE [logged EXCEPT !.status = "failed"]

\* Entities whose table is created from the regular/ directory: one table
\* {network}_{name}, no hot and no cold variant.
RegularTables == {"r1"}

\* The tables loadSqlFiles creates, as <<zone, entity>>.
CreatedTables ==
  ({"hot", "cold"} \X Tables) \cup ({"plain"} \X RegularTables)

\* The table an entity's rows are inserted into: the zone prefix follows
\* isAtChainTip for every class name.
getTableName(s, className) ==
  [zone |-> IF s.isAtChainTip THEN "hot" ELSE "cold", name |-> className]

\* flushStore with the two zones of getTableName swapped.
flushStoreSwapped(s, b, tabs) ==
  LET row == [height |-> b.height, hash |-> b.hash]
      add(z) == [t \in Tables |-> IF t \in tabs THEN z[t] \cup {row} ELSE z[t]]
  IN IF s.isAtChainTip
     THEN [s EXCEPT !.cold = add(@), !.ingested = add(@)]
     ELSE [s EXCEPT !.hot = add(@), !.ingested = add(@)]

flushStore(s, b, tabs) ==
  LET row == [height |-> b.height, hash |-> b.hash]
      add(z) == [t \in Tables |-> IF t \in tabs THEN z[t] \cup {row} ELSE z[t]]
      into(z, zone) ==
        [t \in Tables |-> IF t \in tabs /\ getTableName(s, t).zone = zone
                          THEN z[t] \cup {row} ELSE z[t]]
  IN [s EXCEPT !.hot = into(@, "hot"), !.cold = into(@, "cold"),
               !.ingested = add(@)]

setIsAtChainTip(s, isHead) == [s EXCEPT !.isAtChainTip = isHead]

\* ---------------------------------------------------------- Reorg Engine (E)
\* WHERE height <= cutoff
RowsUpTo(rows, cutoff) == {r \in rows : r.height <= cutoff}

\* A detectReorg that takes only a lower first block for a reorg.
detectReorgStrict(s, newBlocks) ==
  IF Len(s.hotBlocks) = 0 \/ Len(newBlocks) = 0 THEN FALSE
  ELSE newBlocks[1].height < s.hotBlocks[Len(s.hotBlocks)].height

detectReorg(s, newBlocks) ==
  IF Len(s.hotBlocks) = 0 \/ Len(newBlocks) = 0 THEN FALSE
  ELSE newBlocks[1].height <= s.hotBlocks[Len(s.hotBlocks)].height

\* A findCommonAncestor that stops at the first shared block of newBlocks.
findCommonAncestorFirst(s, newBlocks) ==
  LET hashes == {s.hotBlocks[i].hash : i \in DOMAIN s.hotBlocks}
      shared == {newBlocks[i].height : i \in {j \in DOMAIN newBlocks : newBlocks[j].hash \in hashes}}
  IN IF shared = {} THEN s.finalizedHeight
     ELSE MaxOf({s.finalizedHeight, CHOOSE h \in shared : \A g \in shared : h <= g})

findCommonAncestor(s, newBlocks) ==
  LET hashes == {s.hotBlocks[i].hash : i \in DOMAIN s.hotBlocks}
      shared == {newBlocks[i].height : i \in {j \in DOMAIN newBlocks : newBlocks[j].hash \in hashes}}
  IN MaxOf(shared \cup {s.finalizedHeight})

\* A faulty reorg handling that also deletes the hot rows above the ancestor.
reorgPhaseDeleting(s, newBlocks) ==
  IF detectReorg(s, newBlocks)
  THEN LET rollbackHeight == findCommonAncestor(s, newBlocks)
           r == handleReorg(Reg(s), rollbackHeight + 1, newBlocks)
       IN [WithReg(s, r) EXCEPT
             !.hotBlocks = FilterUpTo(@, rollbackHeight),
             !.hot = [t \in Tables |-> RowsUpTo(@[t], rollbackHeight)]]
  ELSE s

\* Lines 369-390 of transactHot: the registry rewrite and the truncation.
reorgPhase(s, newBlocks) ==
  IF detectReorg(s, newBlocks)
  THEN LET rollbackHeight == findCommonAncestor(s, newBlocks)
           r == handleReorg(Reg(s), rollbackHeight + 1, newBlocks)
       IN [WithReg(s, r) EXCEPT !.hotBlocks = FilterUpTo(@, rollbackHeight)]
  ELSE s

\* Lines 360-367 of transactHot.
advanceFinality(s, finalizedHead) ==
  IF finalizedHead > s.finalizedHeight
  THEN [s EXCEPT !.finalizedHeight = finalizedHead,
                 !.hotBlocks = FilterAbove(@, finalizedHead)]
  ELSE s

\* One turn of the loop of lines 392-413.
processBlock(s, b, tabs) ==
  LET s1 == flushStore(s, b, tabs)
      s2 == IF isValidBlock(Reg(s1), b.height, b.hash) THEN s1
            ELSE WithReg(s1, addBlock(Reg(s1), b.height, b.hash))
  IN [s2 EXCEPT !.hotBlocks = Append(@, b)]

RECURSIVE processBlocks(_, _, _, _)
processBlocks(s, newBlocks, i, tabs) ==
  IF i > Len(newBlocks) THEN s
  ELSE processBlocks(processBlock(s, newBlocks[i], tabs), newBlocks, i + 1, tabs)

\* ------------------------------------------------------ Migration Engine (F)
\* SELECT max(height) over a table; ClickHouse answers 0 for an empty table
\* with a non-nullable height column.
MaxHeightIn(rows) == IF rows = {} THEN 0 ELSE MaxOf({r.height : r \in rows})

\* SELECT hash ... WHERE height = h LIMIT 1: any one row of that height; of
\* several rows the database returns the one of fork `pick`, or the next fork
\* after it that has a row. <<>> when there is none.
HashAt(rows, h, pick) ==
  LET at == {r \in rows : r.height = h}
      dist(r) == (r.hash[2] - pick) % NumForks
  IN IF at = {} THEN <<>>
     ELSE <<(CHOOSE r \in at : \A q \in at : dist(r) <= dist(q)).hash>>

\* <<hash>> or <<>> for null.
getBlockHashForHeight(s, height, pick) ==
  LET inChain == {i \in DOMAIN s.hotBlocks : s.hotBlocks[i].height = height}
  IN IF inChain # {}
     THEN <<s.hotBlocks[CHOOSE i \in inChain : \A j \in inChain : i <= j].hash>>
     ELSE IF height \in DOMAIN s.validBlocks
     THEN <<s.validBlocks[height]>>
     ELSE IF HashAt(s.cold[RepTable], height, pick) # <<>>
     THEN HashAt(s.cold[RepTable], height, pick)
     ELSE HashAt(s.hot[RepTable], height, pick)

\* A loop body that deletes from hot before it copies to cold.
migrateTableDeletingFirst(s, t, cutoffHeight, fail) ==
  LET moving == RowsUpTo(s.hot[t], cutoffHeight)
  IN IF moving = {} \/ fail = "delete" THEN s
     ELSE IF fail = "copy"
     THEN [s EXCEPT !.hot[t] = @ \ moving]
     ELSE [s EXCEPT !.cold[t] = @ \cup moving, !.hot[t] = @ \ moving]

\* The loop body of lines 1192-1241 for one table. fail is the step of this
\* table that throws: "none", "copy" (the count or the INSERT ... SELECT) or
\* "delete" (the ALTER TABLE ... DELETE); the catch block logs and goes on.
migrateTable(s, t, cutoffHeight, fail) ==
  LET moving == RowsUpTo(s.hot[t], cutoffHeight)
  IN IF moving = {} \/ fail = "copy" THEN s
     ELSE IF fail = "delete"
     THEN [s EXCEPT !.cold[t] = @ \cup moving]
     ELSE [s EXCEPT !.cold[t] = @ \cup moving, !.hot[t] = @ \ moving]

\* The loop body of lines 1192-1241 for one table while another writer
\* inserts `rows` into its hot table right after the step `after`: "count"
\* (the SELECT count()) or "copy" (the INSERT ... SELECT).  The INSERT ...
\* SELECT and the ALTER TABLE ... DELETE each evaluate `<= cutoff` on the
\* table as it is when they run.
migrateTableDuringInsert(s, t, cutoffHeight, rows, after) ==
  LET rowsToMigrate == Cardinality(RowsUpTo(s.hot[t], cutoffHeight))
      afterCount == IF after = "count" THEN s.hot[t] \cup rows ELSE s.hot[t]
      copied == RowsUpTo(afterCount, cutoffHeight)
      afterCopy == IF after = "copy" THEN afterCount \cup rows ELSE afterCount
  IN IF rowsToMigrate = 0 THEN [s EXCEPT !.hot[t] = @ \cup rows]
     ELSE [s EXCEPT !.cold[t] = @ \cup copied,
                    !.hot[t] = afterCopy \ RowsUpTo(afterCopy, cutoffHeight)]

RECURSIVE migrateTables(_, _, _, _)
migrateTables(s, todo, cutoffHeight, fails) ==
  IF todo = {} THEN s
  ELSE LET t == CHOOSE x \in todo : TRUE
       IN migrateTables(migrateTable(s, t, cutoffHeight, fails[t]),
                        todo \ {t}, cutoffHeight, fails)

\* A migrateHotToCold that does not record the cutoff it migrated to.
migrateHotToColdForgetful(s, fails, pick) ==
  LET skip(c) == [s |-> s, cutoffHeight |-> c, ran |-> FALSE, savedCold |-> FALSE]
      maxHeight == MaxHeightIn(s.hot[RepTable])
      cutoffHeight == maxHeight - HotBlocksDepth
  IN IF ~s.isAtChainTip THEN skip(-1)
     ELSE IF maxHeight <= 0 THEN skip(-1)
     ELSE IF cutoffHeight <= s.lastMigrationHeight THEN skip(cutoffHeight)
     ELSE LET s1 == migrateTables(s, Tables, cutoffHeight, fails)
              cutoffHash == getBlockHashForHeight(s1, cutoffHeight, pick)
          IN [s |-> IF cutoffHash # <<>>
                    THEN updateColdStatus(s1, cutoffHeight, cutoffHash[1])
                    ELSE s1,
              cutoffHeight |-> cutoffHeight, ran |-> TRUE,
              savedCold |-> cutoffHash # <<>>]

\* Returns the new state with the MigrationResult's cutoffHeight, whether the
\* table loop ran and whether the cold checkpoint was written.
migrateHotToCold(s, fails, pick) ==
  LET skip(c) == [s |-> s, cutoffHeight |-> c, ran |-> FALSE, savedCold |-> FALSE]
      maxHeight == MaxHeightIn(s.hot[RepTable])
      cutoffHeight == maxHeight - HotBlocksDepth
  IN IF ~s.isAtChainTip THEN skip(-1)
     ELSE IF maxHeight <= 0 THEN skip(-1)
     ELSE IF cutoffHeight <= s.lastMigrationHeight THEN skip(cutoffHeight)
     ELSE LET s1 == migrateTables(s, Tables, cutoffHeight, fails)
              s2 == [s1 EXCEPT !.lastMigrationHeight = cutoffHeight]
              cutoffHash == getBlockHashForHeight(s2, cutoffHeight, pick)
          IN [s |-> IF cutoffHash # <<>>
                    THEN updateColdStatus(s2, cutoffHeight, cutoffHash[1])
                    ELSE s2,
              cutoffHeight |-> cutoffHeight, ran |-> TRUE,
              savedCold |-> cutoffHash # <<>>]

\* The result of the auto-migration step of a hot batch: the state, the
\* outcome of migrateHotToCold, whether performMigration was entered, whether
\* beforeMigration cancelled it and whether afterMigration was called.
Outcome(s, m, entered, vetoed, after) ==
  [s |-> s, cutoffHeight |-> m.cutoffHeight, ran |-> m.ran, savedCold |-> m.savedCold,
   entered |-> entered, vetoed |-> vetoed, after |-> after]

NotMigrated == [cutoffHeight |-> -1, ran |-> FALSE, savedCold |-> FALSE]

\* A performMigration that resets the counter when the hook cancels.
performMigrationResetting(s, fails, pick, proceed) ==
  IF s.options.hooks /\ ~proceed
  THEN Outcome([s EXCEPT !.blocksSinceLastMigration = 0], NotMigrated, TRUE, TRUE, FALSE)
  ELSE LET m == migrateHotToCold(s, fails, pick)
       IN Outcome([m.s EXCEPT !.blocksSinceLastMigration = 0], m, TRUE, FALSE,
                  s.options.hooks)

\* proceed is what the beforeMigration hook returns, if there is one.
performMigration(s, fails, pick, proceed) ==
  IF s.options.hooks /\ ~proceed
  THEN Outcome(s, NotMigrated, TRUE, TRUE, FALSE)
  ELSE LET m == migrateHotToCold(s, fails, pick)
       IN Outcome([m.s EXCEPT !.blocksSinceLastMigration = 0], m, TRUE, FALSE,
                  s.options.hooks)

\* ---------------------------------------------------- Ingest Coordinator (G)
\* transact (the finalized batch): the callback's rows are those of nextHead.
transact(s, nextHead, tabs) ==
  LET s1 == flushStore(s, nextHead, tabs)
      s2 == [s1 EXCEPT !.finalizedHeight = nextHead.height]
  IN saveStatus(s2, [height |-> nextHead.height, hash |-> nextHead.hash,
                     top |-> s2.hotBlocks])

\* A step of a handler: its name, the index of the block it works on (0 when
\* it is not a step of the per-block loop) and the state it leaves.
Step(name, i, s) == [step |-> name, i |-> i, s |-> s]

\* The state after a list of steps that started in s.
After(steps, s) == IF steps = <<>> THEN s ELSE steps[Len(steps)].s

\* A transact that writes the live checkpoint before it flushes.
finalBatchStepsSavingFirst(s, nextHead, tabs) ==
  LET s1 == [s EXCEPT !.finalizedHeight = nextHead.height]
      s2 == saveStatus(s1, [height |-> nextHead.height, hash |-> nextHead.hash,
                            top |-> s1.hotBlocks])
  IN <<Step("callback", 1, s), Step("finalizedHeight", 0, s1),
       Step("saveStatus", 0, s2), Step("flush", 1, flushStore(s2, nextHead, tabs))>>

\* Every step of transact (lines 324-338) in the order of the code; the
\* callback only fills the store.
finalBatchSteps(s, nextHead, tabs) ==
  LET s1 == flushStore(s, nextHead, tabs)
      s2 == [s1 EXCEPT !.finalizedHeight = nextHead.height]
      s3 == saveStatus(s2, [height |-> nextHead.height, hash |-> nextHead.hash,
                            top |-> s2.hotBlocks])
  IN <<Step("callback", 1, s), Step("flush", 1, s1),
       Step("finalizedHeight", 0, s2), Step("saveStatus", 0, s3)>>

\* A depth limit that keeps the oldest entries of the hot chain.
finishHotBatchKeepingOldest(s, newBlocks) ==
  LET s1 == [s EXCEPT !.hotBlocks = IF Len(@) > HotBlocksDepth
                                    THEN SubSeq(@, 1, HotBlocksDepth) ELSE @]
  IN IF Len(newBlocks) > 0
     THEN saveStatus(s1, [height |-> newBlocks[Len(newBlocks)].height,
                          hash |-> newBlocks[Len(newBlocks)].hash,
                          top |-> s1.hotBlocks])
     ELSE s1

\* Lines 415-430: the depth limit and the live checkpoint.
finishHotBatch(s, newBlocks) ==
  LET s1 == [s EXCEPT !.hotBlocks = SliceLast(@, HotBlocksDepth)]
  IN IF Len(newBlocks) > 0
     THEN saveStatus(s1, [height |-> newBlocks[Len(newBlocks)].height,
                          hash |-> newBlocks[Len(newBlocks)].hash,
                          top |-> s1.hotBlocks])
     ELSE s1

\* An auto-migration that does not look at isAtChainTip.
autoMigrationAnyZone(s, previousFinalizedHeight, newBlocks, fails, pick, proceed) ==
  IF s.options.autoMigrate
  THEN LET s1 == [s EXCEPT !.blocksSinceLastMigration = @ + Len(newBlocks)]
           shouldMigrate ==
             IF s.options.migrationOnFinality
             THEN s1.finalizedHeight > previousFinalizedHeight
             ELSE s1.blocksSinceLastMigration >= s.options.migrationInterval
       IN IF shouldMigrate THEN performMigration(s1, fails, pick, proceed)
          ELSE Outcome(s1, NotMigrated, FALSE, FALSE, FALSE)
  ELSE Outcome(s, NotMigrated, FALSE, FALSE, FALSE)

\* An auto-migration that waits for one block more than migrationInterval.
autoMigrationLate(s, previousFinalizedHeight, newBlocks, fails, pick, proceed) ==
  IF s.options.autoMigrate /\ s.isAtChainTip
  THEN LET s1 == [s EXCEPT !.blocksSinceLastMigration = @ + Len(newBlocks)]
           shouldMigrate ==
             IF s.options.migrationOnFinality
             THEN s1.finalizedHeight > previousFinalizedHeight
             ELSE s1.blocksSinceLastMigration > s.options.migrationInterval
       IN IF shouldMigrate THEN performMigration(s1, fails, pick, proceed)
          ELSE Outcome(s1, NotMigrated, FALSE, FALSE, FALSE)
  ELSE Outcome(s, NotMigrated, FALSE, FALSE, FALSE)

\* Lines 432-445.
autoMigration(s, previousFinalizedHeight, newBlocks, fails, pick, proceed) ==
  IF s.options.autoMigrate /\ s.isAtChainTip
  THEN LET s1 == [s EXCEPT !.blocksSinceLastMigration = @ + Len(newBlocks)]
           shouldMigrate == IF s.options.migrationOnFinality
                            THEN s1.finalizedHeight > previousFinalizedHeight
                            ELSE s1.blocksSinceLastMigration >= s.options.migrationInterval
       IN IF shouldMigrate
          THEN performMigration(s1, fails, pick, proceed)
          ELSE Outcome(s1, NotMigrated, FALSE, FALSE, FALSE)
  ELSE Outcome(s, NotMigrated, FALSE, FALSE, FALSE)

transactHot(s, finalizedHead, newBlocks, tabs, fails, pick, proceed) ==
  LET s1 == advanceFinality(s, finalizedHead)
      s2 == reorgPhase(s1, newBlocks)
      s3 == processBlocks(s2, newBlocks, 1, tabs)
      s4 == finishHotBatch(s3, newBlocks)
  IN autoMigration(s4, s.finalizedHeight, newBlocks, fails, pick, proceed)

\* ----------------------------------------- transactHot, one await at a time
\* Lines 372-391: handleReorg's removal, its addBlocks, and the reset of the
\* hot chain to the common ancestor.
reorgSteps(s, newBlocks) ==
  IF detectReorg(s, newBlocks)
  THEN LET rollbackHeight == findCommonAncestor(s, newBlocks)
           removed == WithReg(s, handleReorgInterrupted(Reg(s), rollbackHeight + 1))
           added == WithReg(s, handleReorg(Reg(s), rollbackHeight + 1, newBlocks))
       IN <<Step("reorg.remove", 0, removed), Step("reorg.addBlocks", 0, added),
            Step("reorg.reset", 0,
                 [added EXCEPT !.hotBlocks = FilterUpTo(@, rollbackHeight)])>>
  ELSE <<>>

\* One turn of the loop of lines 393-413; the callback only fills the store.
blockSteps(s, b, i, tabs) ==
  LET s1 == flushStore(s, b, tabs)
      known == isValidBlock(Reg(s1), b.height, b.hash)
      s2 == IF known THEN s1 ELSE WithReg(s1, addBlock(Reg(s1), b.height, b.hash))
  IN <<Step("callback", i, s), Step("flush", i, s1)>>
     \o (IF known THEN <<>> ELSE <<Step("registry.add", i, s2)>>)
     \o <<Step("append", i, [s2 EXCEPT !.hotBlocks = Append(@, b)])>>

RECURSIVE loopSteps(_, _, _, _)
loopSteps(s, newBlocks, i, tabs) ==
  IF i > Len(newBlocks) THEN <<>>
  ELSE LET steps == blockSteps(s, newBlocks[i], i, tabs)
       IN steps \o loopSteps(After(steps, s), newBlocks, i + 1, tabs)

\* Lines 415-445: the depth limit, saveStatus for a non-empty batch, and the
\* migration trigger, which ends in performMigration when it holds.
closingSteps(s, previousFinalizedHeight, newBlocks, fails, pick, proceed) ==
  LET s1 == [s EXCEPT !.hotBlocks = SliceLast(@, HotBlocksDepth)]
      s2 == finishHotBatch(s, newBlocks)
      m == autoMigration(s2, previousFinalizedHeight, newBlocks, fails, pick, proceed)
  IN <<Step("depth", 0, s1)>>
     \o (IF Len(newBlocks) > 0 THEN <<Step("saveStatus", 0, s2)>> ELSE <<>>)
     \o <<Step(IF m.entered THEN "performMigration" ELSE "trigger", 0, m.s)>>

\* Every step of transactHot in the order of the code.
hotBatchSteps(s, finalizedHead, newBlocks, tabs, fails, pick, proceed) ==
  LET s1 == advanceFinality(s, finalizedHead)
      first == <<Step("finality", 0, s1)>> \o reorgSteps(s1, newBlocks)
      loop == loopSteps(After(first, s1), newBlocks, 1, tabs)
      s3 == After(loop, After(first, s1))
  IN first \o loop
     \o closingSteps(s3, s.finalizedHeight, newBlocks, fails, pick, proceed)

\* ------------------------------------------------------------ transactHot2
\* The flush of a store that the slice callback cb(store, 0, n) has filled:
\* the rows of every block of the slice from j on, one step per block.
RECURSIVE flushSliceSteps(_, _, _, _)
flushSliceSteps(s, newBlocks, j, tabs) ==
  IF j > Len(newBlocks) THEN <<>>
  ELSE LET s1 == flushStore(s, newBlocks[j], tabs)
       IN <<Step("flush", j, s1)>> \o flushSliceSteps(s1, newBlocks, j + 1, tabs)

\* One turn of transactHot's loop when its callback is transactHot2's wrapper
\* `async (store) => { await cb(store, 0, info.newBlocks.length) }`.
sliceBlockSteps(s, newBlocks, i, tabs) ==
  LET b == newBlocks[i]
      flushes == flushSliceSteps(s, newBlocks, 1, tabs)
      s1 == After(flushes, s)
      known == isValidBlock(Reg(s1), b.height, b.hash)
      s2 == IF known THEN s1 ELSE WithReg(s1, addBlock(Reg(s1), b.height, b.hash))
  IN <<Step("callback", i, s)>> \o flushes
     \o (IF known THEN <<>> ELSE <<Step("registry.add", i, s2)>>)
     \o <<Step("append", i, [s2 EXCEPT !.hotBlocks = Append(@, b)])>>

RECURSIVE sliceLoopSteps(_, _, _, _)
sliceLoopSteps(s, newBlocks, i, tabs) ==
  IF i > Len(newBlocks) THEN <<>>
  ELSE LET steps == sliceBlockSteps(s, newBlocks, i, tabs)
       IN steps \o sliceLoopSteps(After(steps, s), newBlocks, i + 1, tabs)

\* Every step of transactHot2: transactHot with the wrapper as callback.
hotBatch2Steps(s, finalizedHead, newBlocks, tabs, fails, pick, proceed) ==
  LET s1 == advanceFinality(s, finalizedHead)
      first == <<Step("finality", 0, s1)>> \o reorgSteps(s1, newBlocks)
      loop == sliceLoopSteps(After(first, s1), newBlocks, 1, tabs)
      s3 == After(loop, After(first, s1))
  IN first \o loop
     \o closingSteps(s3, s.finalizedHeight, newBlocks, fails, pick, proceed)

\* ------------------------------------------------ Stale-Restart Reconciler (H)
\* max(height) of an empty cold table is 0, or NULL when the height column is
\* nullable (nullOnEmpty); the code skips a NULL.
getLatestColdBlockHeight(s, nullOnEmpty) ==
  MaxOf({-1} \cup {MaxHeightIn(s.cold[t]) : t \in {u \in Tables : s.cold[u] # {} \/ ~nullOnEmpty}})

\* TRUNCATE of each non-empty hot table; the tables of truncFails throw, which
\* the catch block logs without failing the rollback.
clearAllHotTables(s, truncFails) ==
  [s EXCEPT !.hot = [t \in Tables |-> IF t \in truncFails THEN @[t] ELSE {}]]

\* A faulty reconciler whose heightBeyondCold lacks `&& coldHeight >= 0`.
detectAndRollbackAnyCold(s, state, nullOnEmpty, truncFails) ==
  LET coldStatusRow == getColdStatus(s)
      coldHeight == IF coldStatusRow # <<>> THEN coldStatusRow[1].height
                    ELSE getLatestColdBlockHeight(s, nullOnEmpty)
      coldHash == IF coldStatusRow # <<>> THEN coldStatusRow[1].hash ELSE EmptyHash
  IN IF Len(state.top) = 0 /\ ~(state.height > coldHeight)
     THEN [s |-> s, newState |-> <<>>]
     ELSE LET s2 == clearAllHotTables(WithReg(s, clear(Reg(s))), truncFails)
              newState == [height |-> coldHeight, hash |-> coldHash, top |-> <<>>,
                           finalizedHeight |-> <<coldHeight>>]
          IN [s |-> saveStatus(s2, newState), newState |-> <<newState>>]

\* Returns the state and <<newState>>, or <<>> for null (no rollback).
detectAndRollbackStaleHotBlocks(s, state, nullOnEmpty, truncFails) ==
  LET coldStatusRow == getColdStatus(s)
      coldHeight == IF coldStatusRow # <<>> THEN coldStatusRow[1].height
                    ELSE getLatestColdBlockHeight(s, nullOnEmpty)
      coldHash == IF coldStatusRow # <<>> THEN coldStatusRow[1].hash ELSE EmptyHash
      hasHotBlocks == Len(state.top) > 0
      heightBeyondCold == state.height > coldHeight /\ coldHeight >= 0
  IN IF ~hasHotBlocks /\ ~heightBeyondCold
     THEN [s |-> s, newState |-> <<>>]
     ELSE LET s1 == WithReg(s, clear(Reg(s)))
              s2 == clearAllHotTables(s1, truncFails)
              newState == [height |-> coldHeight, hash |-> coldHash, top |-> <<>>,
                           finalizedHeight |-> <<coldHeight>>]
          IN [s |-> saveStatus(s2, newState), newState |-> <<newState>>]

\* connect(): load the live checkpoint, load the registry, reconcile.
connect(s, nullOnEmpty, truncFails) ==
  LET state == getLastProcessedBlock(s)
      s1 == [s EXCEPT !.finalizedHeight = FinalizedOrHeight(state),
                      !.hotBlocks = state.top]
      s2 == [s1 EXCEPT !.validBlocks = s1.regDb]
      staleRollback == detectAndRollbackStaleHotBlocks(s2, state, nullOnEmpty, truncFails)
  IN IF staleRollback.newState # <<>>
     THEN [s |-> [staleRollback.s EXCEPT
                    !.finalizedHeight = FinalizedOrHeight(staleRollback.newState[1]),
                    !.hotBlocks = staleRollback.newState[1].top],
           state |-> staleRollback.newState[1], rolled |-> TRUE]
     ELSE [s |-> staleRollback.s, state |-> state, rolled |-> FALSE]

\* ------------------------------------------------------------ the producer
\* The height the producer resumes from: the acknowledged head, which every
\* batch and connect() leave in the live checkpoint.
ProducerHead(s) == IF s.live = <<>> THEN -1 ELSE s.live[1].height

\* The blocks k, k+1, ... of one fork.
NewBlocks(k, n, fork) == [i \in 1..n |-> Block(k + i - 1, fork)]

\* The tables for which the callback of a batch produces a row per block.
TabChoices == {Tables}

\* The hot batches the producer may deliver in state s: n contiguous blocks of
\* one fork from height k on. A batch that extends the chain (k = head + 1)
\* carries fork 1; a batch that goes back (k <= head) starts above the
\* finalized height and carries any fork, but no block that the hot chain
\* already holds. The finalized head stays, or moves up to two below the first
\* new block (to the head, for an empty batch).
HotBatches(s) ==
  {b \in [finalizedHead : (-1)..MaxHeight, k : Heights, n : 0..MaxBatch, fork : Forks] :
     /\ b.k > s.finalizedHeight
     /\ b.k <= ProducerHead(s) + 1
     /\ b.k + b.n - 1 <= MaxHeight
     /\ b.k = ProducerHead(s) + 1 => b.fork = 1
     /\ b.n = 0 => b.k = ProducerHead(s) + 1
     /\ \A i \in 1..b.n, j \in DOMAIN s.hotBlocks :
          Block(b.k + i - 1, b.fork) # s.hotBlocks[j]
     /\ \/ b.finalizedHead = s.finalizedHeight
        \/ b.finalizedHead > s.finalizedHeight
           /\ b.finalizedHead = (IF b.n > 0 THEN b.k - 2 ELSE ProducerHead(s))}

NoFailure == [t \in Tables |-> "none"]

\* The outcomes of a migration's table loop and hash lookup; they are only
\* drawn when that loop runs (m is the migration with no failure).
MigrationFailures(m) ==
  IF m.ran /\ used < MaxUpsets
  THEN [Tables -> {"none", "copy", "delete"}] ELSE {NoFailure}

\* The hot tables whose TRUNCATE may throw during a rollback.
TruncateFailures(s) ==
  IF used < MaxUpsets THEN SUBSET {t \in Tables : s.hot[t] # {}} ELSE {{}}

\* Whether the answer for an empty cold table is read by connect().
NullChoices(s) ==
  IF s.coldStatus = <<>> /\ \E t \in Tables : s.cold[t] = {} THEN BOOLEAN ELSE {FALSE}

Count(b) == IF b THEN 1 ELSE 0

\* The record kept in `last`: the operation, whether connect() rolled back,
\* whether the batch was handled as a reorg, whether a migration's table loop
\* ran.
Did(op, rolled, reorg, ran) ==
  [op |-> op, rolled |-> rolled, reorg |-> reorg, ran |-> ran,
   entered |-> FALSE, vetoed |-> FALSE]

\* What beforeMigration may answer; drawn only when the hook is called.
HookAnswers(m) == IF m.entered /\ options.hooks THEN BOOLEAN ELSE {TRUE}
HashPicks(m) == IF m.ran THEN Forks ELSE {1}

\* ------------------------------------------------------------------ actions
\* A database in which no table of this processor holds a row.
EmptyDatabase(opts) ==
  [live |-> <<>>, coldStatus |-> <<>>, regDb |-> EmptyMap,
   hot |-> NoRows, cold |-> NoRows, ingested |-> NoRows, options |-> opts]

\* ------------------------------------------------- a second processor
\* Another ClickhouseDatabase object with its own processorId on the same
\* database and network.  Its status row, cold status row and registry rows
\* are selected by `id` / `processor_id`, so they are its own; the hot and
\* cold tables are named after the network alone, so they are shared.
\* `rows` is history: the rows this processor flushed to the hot tables.
PeerOf(present, isReady, s, rows) ==
  [present |-> present, ready |-> isReady,
   hotBlocks |-> s.hotBlocks, finalizedHeight |-> s.finalizedHeight,
   validBlocks |-> s.validBlocks, isAtChainTip |-> s.isAtChainTip,
   blocksSinceLastMigration |-> s.blocksSinceLastMigration,
   lastMigrationHeight |-> s.lastMigrationHeight,
   live |-> s.live, coldStatus |-> s.coldStatus, regDb |-> s.regDb,
   options |-> s.options, rows |-> rows]

\* The second processor leaves the migration to the first one.
PeerOptions == Options(TRUE, FALSE, FALSE, FALSE)

NoPeer == PeerOf(FALSE, FALSE, Constructed(EmptyDatabase(PeerOptions)), NoRows)

\* The program state of the second processor: its object, its rows of the
\* keyed tables, and the shared hot and cold tables.
PeerSt ==
  [hotBlocks |-> peer.hotBlocks, finalizedHeight |-> peer.finalizedHeight,
   validBlocks |-> peer.validBlocks, isAtChainTip |-> peer.isAtChainTip,
   blocksSinceLastMigration |-> peer.blocksSinceLastMigration,
   lastMigrationHeight |-> peer.lastMigrationHeight,
   live |-> peer.live, coldStatus |-> peer.coldStatus, regDb |-> peer.regDb,
   hot |-> hot, cold |-> cold, ingested |-> ingested, options |-> peer.options]

PeerBecomes(s, rows) ==
  /\ peer' = PeerOf(TRUE, TRUE, s, rows)
  /\ hot' = s.hot
  /\ cold' = s.cold
  /\ ingested' = s.ingested
  /\ UNCHANGED <<ready, hotBlocks, finalizedHeight, validBlocks, isAtChainTip,
                 blocksSinceLastMigration, lastMigrationHeight, live, coldStatus,
                 regDb, options, flush, used>>

\* A new processor with the default options on an empty database.
Init ==
  /\ ready = FALSE
  /\ Starts(Constructed(EmptyDatabase(DefaultOptions)))
  /\ peer = NoPeer
  /\ flush = NoFlush
  /\ used = 0
  /\ last = Did("new", FALSE, FALSE, FALSE)

\* A new processor with any of the configurations on an empty database, in a
\* run without upsets.
InitOptions ==
  /\ ready = FALSE
  /\ \E opts \in Configs : Starts(Constructed(EmptyDatabase(opts)))
  /\ peer = NoPeer
  /\ flush = NoFlush
  /\ used = MaxUpsets
  /\ last = Did("new", FALSE, FALSE, FALSE)

\* The process starts (again): a new ClickhouseDatabase, then connect().
Restart ==
  /\ ~ready \/ used < MaxUpsets
  /\ \E nullOnEmpty \in NullChoices(St), truncFails \in TruncateFailures(St) :
       LET c == connect(Constructed(St), nullOnEmpty, truncFails)
       IN /\ Becomes(c.s)
          /\ ready' = TRUE
          /\ used' = used + Count(ready) + Count(truncFails # {})
          /\ used' <= MaxUpsets
          /\ last' = Did("connect", c.rolled, FALSE, FALSE)

SetIsAtChainTip ==
  /\ ready
  /\ \E isHead \in BOOLEAN :
       /\ isHead # isAtChainTip
       /\ Becomes(setIsAtChainTip(St, isHead))
       /\ used' = used + Count(~isHead)
       /\ used' <= MaxUpsets
  /\ last' = Did("setIsAtChainTip", FALSE, FALSE, FALSE)
  /\ UNCHANGED ready

TransactFinal ==
  /\ ready
  /\ \E h \in Heights, v \in {1}, tabs \in TabChoices :
       /\ h > finalizedHeight /\ h > ProducerHead(St)
       /\ h <= ProducerHead(St) + MaxBatch
       /\ Becomes(transact(St, Block(h, v), tabs))
  /\ last' = Did("transact", FALSE, FALSE, FALSE)
  /\ UNCHANGED <<ready, used>>

TransactHot ==
  /\ ready
  /\ \E b \in HotBatches(St), tabs \in TabChoices :
       LET newBlocks == NewBlocks(b.k, b.n, b.fork)
           m == transactHot(St, b.finalizedHead, newBlocks, tabs, NoFailure, 1, TRUE)
       IN \E fails \in MigrationFailures(m), pick \in HashPicks(m),
             proceed \in HookAnswers(m) :
       LET r == transactHot(St, b.finalizedHead, newBlocks, tabs, fails, pick, proceed)
       IN /\ Becomes(r.s)
          /\ used' = used + Count(b.n > 0 /\ b.k <= ProducerHead(St)) + Count(fails # NoFailure)
          /\ used' <= MaxUpsets
          /\ proceed \/ (fails = NoFailure /\ pick = 1)
          /\ last' = [Did("transactHot", FALSE,
                          detectReorg(advanceFinality(St, b.finalizedHead), newBlocks),
                          r.ran)
                      EXCEPT !.entered = r.entered, !.vetoed = r.vetoed]
  /\ UNCHANGED ready

\* migrateHotToCold() called by the application (README, Manual Migration).
Migrate ==
  /\ ready
  /\ migrateHotToCold(St, NoFailure, 1).ran
  /\ \E fails \in MigrationFailures(migrateHotToCold(St, NoFailure, 1)),
        pick \in HashPicks(migrateHotToCold(St, NoFailure, 1)) :
       LET r == migrateHotToCold(St, fails, pick)
       IN /\ Becomes(r.s)
          /\ used' = used + Count(fails # NoFailure)
          /\ last' = Did("migrateHotToCold", FALSE, FALSE, r.ran)
  /\ UNCHANGED ready

Next ==
  \/ Restart
  \/ SetIsAtChainTip
  \/ TransactFinal
  \/ TransactHot
  \/ Migrate

Spec == Init /\ [][Next]_vars

SpecOptions == InitOptions /\ [][Next]_vars

\* Two new processors on one empty database, in a run without upsets.
InitShared ==
  /\ ready = FALSE
  /\ Starts(Constructed(EmptyDatabase(DefaultOptions)))
  /\ peer = PeerOf(TRUE, FALSE, Constructed(EmptyDatabase(PeerOptions)), NoRows)
  /\ flush = NoFlush
  /\ used = MaxUpsets
  /\ last = Did("new", FALSE, FALSE, FALSE)

\* The second processor starts: a new ClickhouseDatabase, then connect().
PeerConnect ==
  /\ peer.present /\ ~peer.ready
  /\ \E nullOnEmpty \in NullChoices(PeerSt) :
       PeerBecomes(connect(Constructed(PeerSt), nullOnEmpty, {}).s, peer.rows)
  /\ last' = Did("peer.connect", FALSE, FALSE, FALSE)

PeerSetIsAtChainTip ==
  /\ peer.ready /\ ~peer.isAtChainTip
  /\ PeerBecomes(setIsAtChainTip(PeerSt, TRUE), peer.rows)
  /\ last' = Did("peer.setIsAtChainTip", FALSE, FALSE, FALSE)

\* The second processor receives the next block of the chain as a hot batch.
PeerTransactHot ==
  /\ peer.ready
  /\ \E k \in 0..PeerMaxHeight :
       /\ k = ProducerHead(PeerSt) + 1
       /\ LET r == transactHot(PeerSt, peer.finalizedHeight, NewBlocks(k, 1, 1),
                               Tables, NoFailure, 1, TRUE)
              flushed == IF peer.isAtChainTip
                         THEN {[height |-> k, hash |-> Hash(k, 1)]} ELSE {}
          IN PeerBecomes(r.s, [t \in Tables |-> peer.rows[t] \cup flushed])
  /\ last' = Did("peer.transactHot", FALSE, FALSE, FALSE)

NextShared ==
  \/ Next
  \/ PeerConnect
  \/ PeerSetIsAtChainTip
  \/ PeerTransactHot

SpecShared == InitShared /\ [][NextShared]_vars

\* flushStore starts the insert loop of a table with 1..MaxChunks chunks.
InitRetry ==
  /\ ready = FALSE
  /\ Starts(Constructed(EmptyDatabase(DefaultOptions)))
  /\ peer = NoPeer
  /\ \E chunks \in 1..MaxChunks : flush = NewFlush(chunks)
  /\ used = 0
  /\ last = Did("new", FALSE, FALSE, FALSE)

\* The next client.insert of the loop, with any outcome.
InsertAttempt ==
  /\ flush.status = "running"
  /\ \E outcome \in InsertOutcomes : flush' = insertAttempt(flush, outcome)
  /\ UNCHANGED <<ready, hotBlocks, finalizedHeight, validBlocks, isAtChainTip,
                 blocksSinceLastMigration, lastMigrationHeight, live, coldStatus,
                 regDb, hot, cold, ingested, options, peer, used, last>>

NextRetry == InsertAttempt

SpecRetry == InitRetry /\ [][NextRetry]_vars

\* ------------------------------------------------------------------- claims
RowsAt(rows, h) == {r \in rows : r.height = h}

\* C1: in every reachable state, for every table T and every height h up to
\* the height of the persisted cold checkpoint, the rows of T_cold with height
\* h are exactly the rows that were ingested for T at height h.
NoDataLossByMigration ==
  coldStatus # <<>> =>
    \A t \in Tables : \A h \in Heights :
      h <= coldStatus[1].height => RowsAt(cold[t], h) = RowsAt(ingested[t], h)

\* C2: whenever the cold checkpoint is written with height C, no table has a
\* hot row with height <= C that is missing from its cold table.
ColdCheckpointOnlyAfterPromotion ==
  [][coldStatus' # coldStatus =>
       \A t \in Tables : \A r \in hot'[t] :
         r.height <= coldStatus'[1].height => r \in cold'[t]]_vars

\* C3: when migrateHotToCold completes a migration at cutoff C (the table loop
\* ran and lastMigrationHeight became C), no hot table holds a row with
\* height <= C.
NoHotRowUpToCutoff ==
  [][(last'.ran /\ last'.op \in {"transactHot", "migrateHotToCold"}) =>
       \A t \in Tables : \A r \in hot'[t] : r.height > lastMigrationHeight']_vars

\* C4: in every reachable state the height of the persisted live checkpoint is
\* at least the height of the persisted cold checkpoint.
LiveAtLeastCold ==
  coldStatus # <<>> => live # <<>> /\ live[1].height >= coldStatus[1].height

Contiguous(chain) ==
  \A i \in 1..(Len(chain) - 1) : chain[i + 1].height = chain[i].height + 1

\* C5: at every batch boundary (connect() has returned and no handler is
\* running), every block of the in-memory hot chain is in the valid-blocks
\* registry, in memory and in the table, with the same hash.
HotChainInRegistry ==
  ready =>
    \A i \in DOMAIN hotBlocks :
      /\ isValidBlock(Reg(St), hotBlocks[i].height, hotBlocks[i].hash)
      /\ hotBlocks[i].height \in DOMAIN regDb
      /\ regDb[hotBlocks[i].height] = hotBlocks[i].hash

\* C6: at every batch boundary the heights of the in-memory hot chain, and of
\* the hot blocks saved in the live checkpoint, are strictly increasing and
\* contiguous.
HotChainContiguous ==
  ready =>
    /\ Contiguous(hotBlocks)
    /\ live # <<>> => Contiguous(live[1].hot_blocks)

\* C7: for a batch that transactHot handles as a reorg and whose first block
\* has height k, the reorg handling keeps the hot-chain entries below k and
\* removes those at or above k (the common ancestor is k - 1), and keeps the
\* registry entries below k that are inside the finality window.
ReorgKeepsPrefix ==
  \A b \in HotBatches(St) :
    LET newBlocks == NewBlocks(b.k, b.n, b.fork)
        s1 == advanceFinality(St, b.finalizedHead)
        s2 == reorgPhase(s1, newBlocks)
        tip == newBlocks[Len(newBlocks)].height
    IN (ready /\ detectReorg(s1, newBlocks)) =>
         /\ findCommonAncestor(s1, newBlocks) = b.k - 1
         /\ s2.hotBlocks = FilterUpTo(s1.hotBlocks, b.k - 1)
         /\ \A h \in DOMAIN s1.validBlocks :
              (h < b.k /\ h >= tip - HotBlocksDepth) =>
                isValidBlock(Reg(s2), h, s1.validBlocks[h])

\* The batches handleReorg may be given: n contiguous blocks of one fork.
AnyBatches ==
  {b \in [k : Heights, n : 0..MaxBatch, fork : Forks] : b.k + b.n - 1 <= MaxHeight}

\* C8: after handleReorg(k, newBlocks) on the registry of any reachable state,
\* no entry (in memory or in the table) with height >= k has a hash that is
\* not the hash of a block of newBlocks, and every block of newBlocks inside
\* the finality window is present with its new hash.
HandleReorgReplaces ==
  \A k \in Heights, b \in AnyBatches :
    LET newBlocks == NewBlocks(b.k, b.n, b.fork)
        hashes == {newBlocks[i].hash : i \in DOMAIN newBlocks}
        r == handleReorg(Reg(St), k, newBlocks)
    IN /\ \A h \in DOMAIN r.mem : h >= k => r.mem[h] \in hashes
       /\ \A h \in DOMAIN r.db : h >= k => r.db[h] \in hashes
       /\ \A i \in DOMAIN newBlocks :
            newBlocks[i].height >= newBlocks[Len(newBlocks)].height - HotBlocksDepth =>
              /\ isValidBlock(r, newBlocks[i].height, newBlocks[i].hash)
              /\ newBlocks[i].height \in DOMAIN r.db
              /\ r.db[newBlocks[i].height] = newBlocks[i].hash

\* A reorg batch has just replaced a registry entry: the registry holds the
\* block of fork 2 where the data tables hold a row of fork 1.
HandleReorgReplaced ==
  /\ last.op = "transactHot" /\ last.reorg
  /\ \E h \in DOMAIN validBlocks :
       /\ validBlocks[h] = Hash(h, 2) /\ regDb[h] = Hash(h, 2)
       /\ [height |-> h, hash |-> Hash(h, 1)] \in hot[RepTable] \cup cold[RepTable]

\* C9: the reorg handling of transactHot, for every batch the producer may
\* deliver in a reachable state, changes nothing but the valid-blocks registry
\* and the in-memory hot chain: no row leaves a hot or a cold table.
ReorgDeletesNoRow ==
  \A b \in HotBatches(St) :
    LET newBlocks == NewBlocks(b.k, b.n, b.fork)
        s1 == advanceFinality(St, b.finalizedHead)
        s2 == reorgPhase(s1, newBlocks)
    IN s2 = [s1 EXCEPT !.validBlocks = s2.validBlocks, !.regDb = s2.regDb,
                       !.hotBlocks = s2.hotBlocks]

\* A batch was handled as a reorg and the rows of the block it orphaned are
\* still in the hot table.
ReorgKeptOrphanRows ==
  /\ last.op = "transactHot" /\ last.reorg /\ ~last.ran
  /\ \E r \in hot[RepTable] :
       r.height \in DOMAIN validBlocks /\ validBlocks[r.height] # r.hash

\* What connect() loads in the current database: the live checkpoint and the
\* cold height (the cold checkpoint's, or the cold tables' maximum).
LoadedColdHeight(nullOnEmpty) ==
  IF coldStatus # <<>> THEN coldStatus[1].height
  ELSE getLatestColdBlockHeight(St, nullOnEmpty)

LoadedCold(nullOnEmpty) ==
  [height |-> LoadedColdHeight(nullOnEmpty),
   hash |-> IF coldStatus # <<>> THEN coldStatus[1].hash ELSE EmptyHash]

\* C11: when connect() on the current database rolls back, the live
\* checkpoint it persists is {height: cold.height, hash: cold.hash,
\* hotBlocks: [], finalizedHeight: cold.height}, a later load of the live
\* checkpoint returns that state, and connect() returns it.
RollbackSavesColdCheckpoint ==
  \A nullOnEmpty \in BOOLEAN, truncFails \in SUBSET Tables :
    LET c == connect(Constructed(St), nullOnEmpty, truncFails)
        coldRow == LoadedCold(nullOnEmpty)
        want == [height |-> coldRow.height, hash |-> coldRow.hash, top |-> <<>>,
                 finalizedHeight |-> <<coldRow.height>>]
    IN c.rolled =>
         /\ c.s.live = <<[height |-> coldRow.height, hash |-> coldRow.hash,
                          hot_blocks |-> <<>>, finalized_height |-> coldRow.height]>>
         /\ getLastProcessedBlock(c.s) = want
         /\ c.state = want

\* C12: when connect() on the current database rolls back and returns, the
\* valid-blocks registry is empty in memory and in the table, and every hot
\* table is empty.
RollbackClearsHotZone ==
  \A nullOnEmpty \in BOOLEAN, truncFails \in SUBSET {t \in Tables : hot[t] # {}} :
    LET c == connect(Constructed(St), nullOnEmpty, truncFails)
    IN c.rolled =>
         /\ c.s.validBlocks = EmptyMap /\ c.s.regDb = EmptyMap
         /\ \A t \in Tables : c.s.hot[t] = {}

\* C13: zone routing.  The rows a batch flushes while isAtChainTip is false
\* are written to the cold tables and the hot tables stay as they were; the
\* rows a batch flushes while isAtChainTip is true are written to the hot
\* tables (and, unless the batch ends with a migration, the cold tables stay
\* as they were).  The flag of a database object changes only in
\* setIsAtChainTip; a restarted process constructs a new object, whose flag
\* is false.
ZoneRouting ==
  [][ /\ isAtChainTip' # isAtChainTip =>
           \/ last'.op = "setIsAtChainTip"
           \/ last'.op = "connect" /\ ~isAtChainTip'
      /\ last'.op \in {"transact", "transactHot"} =>
           \A t \in Tables :
             LET new == ingested'[t] \ ingested[t]
             IN IF isAtChainTip
                THEN /\ new \subseteq hot'[t] \cup cold'[t]
                     /\ ~last'.ran => new \subseteq hot'[t] /\ cold'[t] = cold[t]
                ELSE new \subseteq cold'[t] /\ hot'[t] = hot[t]
    ]_vars

\* C13 witness: a batch flushed while catching up has written rows above
\* every row of the hot table, which holds rows flushed at the chain tip.
RoutedToBothZones ==
  /\ last.op = "transactHot" /\ ~isAtChainTip
  /\ hot[RepTable] # {}
  /\ \E r \in cold[RepTable] : \A q \in hot[RepTable] : r.height > q.height

\* C14: the rows of an entity with a regular table are written to the one
\* table {network}_{name}, whatever isAtChainTip is, and never to a hot_ or
\* cold_ table: in every state the database can be in when a batch is
\* flushed, the table chosen for a regular entity is its created table.
RegularWrittenToFixedTable ==
  ready =>
    \A e \in RegularTables :
      LET target == getTableName(St, e)
      IN /\ target.zone = "plain"
         /\ <<target.zone, target.name>> \in CreatedTables

\* C15: with supportHotBlocks = false no operation touches the valid-blocks
\* registry (it stays empty in memory and in its table), no hot-to-cold
\* migration is run, and connect() does not reconcile a stale hot zone.
HotSupportOffSkipsHotPath ==
  ~options.supportHotBlocks =>
    /\ validBlocks = EmptyMap /\ regDb = EmptyMap
    /\ ~last.ran /\ lastMigrationHeight = -1
    /\ \A nullOnEmpty \in BOOLEAN :
         ~connect(Constructed(St), nullOnEmpty, {}).rolled

\* C16: migration trigger policy.  For every hot batch the producer may
\* deliver in a reachable state, the migration engine is entered at the end
\* of transactHot if and only if autoMigrate and isAtChainTip hold and, with
\* migrationOnFinality, the finalized height advanced during the batch, or,
\* without it, the counter plus the batch's blocks reaches migrationInterval.
\* The counter grows by the batch's blocks at the tip (with autoMigrate), is
\* 0 after the engine ran a migration, and is left alone otherwise.
MigrationTriggerPolicy ==
  ready =>
    \A b \in HotBatches(St), proceed \in BOOLEAN :
      LET newBlocks == NewBlocks(b.k, b.n, b.fork)
          r == transactHot(St, b.finalizedHead, newBlocks, Tables, NoFailure, 1, proceed)
          counted == blocksSinceLastMigration + Len(newBlocks)
          policy == /\ options.autoMigrate
                    /\ isAtChainTip
                    /\ IF options.migrationOnFinality
                       THEN r.s.finalizedHeight > finalizedHeight
                       ELSE counted >= options.migrationInterval
      IN /\ r.entered <=> policy
         /\ ~isAtChainTip \/ ~options.autoMigrate =>
              /\ ~r.entered /\ ~r.ran
              /\ r.s.blocksSinceLastMigration = blocksSinceLastMigration
         /\ isAtChainTip /\ options.autoMigrate =>
              r.s.blocksSinceLastMigration =
                (IF r.entered /\ ~r.vetoed THEN 0 ELSE counted)

\* C16 witness: with migrationOnFinality, a batch at the tip that advanced
\* the finalized height has entered the migration engine before the counter
\* could reach migrationInterval, and the counter is back at 0.
EnteredOnFinality ==
  /\ last.op = "transactHot" /\ last.entered /\ ~last.vetoed
  /\ options.migrationOnFinality /\ isAtChainTip
  /\ blocksSinceLastMigration = 0
  /\ Len(hotBlocks) < options.migrationInterval

\* What a cancelled migration leaves behind, for the batch b delivered in the
\* current state with a beforeMigration hook that answers false: nothing is
\* copied, deleted or written to the cold checkpoint, afterMigration is not
\* called and the counter keeps the batch's blocks.
VetoLeaves(b, r) ==
  /\ ~r.ran /\ ~r.savedCold /\ ~r.after
  /\ r.s.cold = cold /\ r.s.coldStatus = coldStatus
  /\ r.s.lastMigrationHeight = lastMigrationHeight
  /\ \A t \in Tables : hot[t] \subseteq r.s.hot[t]
  /\ r.s.blocksSinceLastMigration = blocksSinceLastMigration + b.n

\* Whether the migration engine is entered at the end of the batch b2
\* delivered in state s.
EntersAfter(s, b2) ==
  transactHot(s, b2.finalizedHead, NewBlocks(b2.k, b2.n, b2.fork), Tables,
              NoFailure, 1, FALSE).entered

\* C17 as stated: when the trigger fires and beforeMigration returns false,
\* no migration step runs, afterMigration is not called, the counter is not
\* reset, and the hook is consulted again at the end of the very next hot
\* batch at the tip.
VetoRetriedNextBatch ==
  (ready /\ options.hooks) =>
    \A b \in HotBatches(St) :
      LET r == transactHot(St, b.finalizedHead, NewBlocks(b.k, b.n, b.fork),
                           Tables, NoFailure, 1, FALSE)
      IN r.vetoed =>
           /\ VetoLeaves(b, r)
           /\ \A b2 \in HotBatches(r.s) : EntersAfter(r.s, b2)

\* C17: when the trigger fires and beforeMigration returns false, no
\* migration step runs, afterMigration is not called and the counter is not
\* reset; with migrationOnFinality = false the hook is consulted again at the
\* end of the very next hot batch at the tip, and with migrationOnFinality =
\* true at the end of the next hot batch at the tip during which the
\* finalized height advances, and of no batch before it.
VetoRetriedByCounter ==
  (ready /\ options.hooks) =>
    \A b \in HotBatches(St) :
      LET r == transactHot(St, b.finalizedHead, NewBlocks(b.k, b.n, b.fork),
                           Tables, NoFailure, 1, FALSE)
      IN r.vetoed =>
           /\ VetoLeaves(b, r)
           /\ \A b2 \in HotBatches(r.s) :
                IF options.migrationOnFinality
                THEN EntersAfter(r.s, b2) <=> b2.finalizedHead > r.s.finalizedHeight
                ELSE EntersAfter(r.s, b2)

\* C17 witness: counting blocks, the hook has just cancelled a migration for
\* the second time at least: the counter stands at twice migrationInterval,
\* which no single batch reaches from below migrationInterval.
VetoedAgain ==
  /\ last.op = "transactHot" /\ last.vetoed
  /\ ~options.migrationOnFinality
  /\ blocksSinceLastMigration >= 2 * options.migrationInterval

\* The outcomes the table loop of a migration may have.
AnyFailures == [Tables -> {"none", "copy", "delete"}]

\* C19: migration idempotence.  In every reachable state, whatever the first
\* call of migrateHotToCold did (some copies or deletes may have failed), a
\* second call with no ingest in between is a no-op: its table loop does not
\* run, no row of a hot or cold table changes, and the cold checkpoint and
\* lastMigrationHeight stay as the first call left them.
SecondMigrationIsNoOp ==
  ready =>
    \A fails1 \in AnyFailures, pick1 \in Forks, fails2 \in AnyFailures, pick2 \in Forks :
      LET m1 == migrateHotToCold(St, fails1, pick1)
          m2 == migrateHotToCold(m1.s, fails2, pick2)
      IN /\ ~m2.ran /\ ~m2.savedCold
         /\ m2.s = m1.s

\* C19 witness: a manual migration has just moved rows to the cold table, and
\* the hot table still holds rows above the cutoff that a second call would
\* compute again.
MigratedUpToCutoff ==
  /\ last.op = "migrateHotToCold" /\ last.ran /\ isAtChainTip
  /\ hot[RepTable] # {} /\ cold[RepTable] # {}
  /\ MaxHeightIn(hot[RepTable]) - HotBlocksDepth = lastMigrationHeight

\* The heights of f lie in [max - finalityDepth + 1, max].
InWindow(f) ==
  \A h \in DOMAIN f : h >= MaxOf(DOMAIN f) - HotBlocksDepth + 1

\* C20: registry window.  At every batch boundary, that is after every
\* completed registry operation, every height of the registry (in memory and
\* in the table) lies in [maxHeight - finalityDepth + 1, maxHeight], and the
\* registry holds at most finalityDepth heights.
RegistryWindow ==
  ready =>
    /\ InWindow(validBlocks) /\ InWindow(regDb)
    /\ Cardinality(DOMAIN validBlocks) <= HotBlocksDepth
    /\ Cardinality(DOMAIN regDb) <= HotBlocksDepth

\* n hot batches of one block each, heights k, k + 1, ..., delivered in state
\* s with the finalized head where it is and no failing command.
RECURSIVE OneBlockBatches(_, _, _)
OneBlockBatches(s, k, n) ==
  IF n = 0 THEN s
  ELSE OneBlockBatches(transactHot(s, s.finalizedHeight, NewBlocks(k, 1, 1), Tables,
                                   NoFailure, 1, TRUE).s,
                       k + 1, n - 1)

\* Where Scenario 2 starts: the processor has just reached the chain tip
\* after a catch-up; nothing is hot, no migration has run, the counter is 0
\* and the interval policy without hooks is configured.
AtTipAfterCatchup ==
  /\ ready /\ isAtChainTip
  /\ options.autoMigrate /\ ~options.migrationOnFinality /\ ~options.hooks
  /\ hotBlocks = <<>> /\ validBlocks = EmptyMap
  /\ \A t \in Tables : hot[t] = {}
  /\ blocksSinceLastMigration = 0 /\ lastMigrationHeight = -1

HeightsOf(rows) == {r.height : r \in rows}

\* C18 as stated: after migrationInterval one-block hot batches and
\* hotBlocksDepth further ones, each hot table retains exactly the rows of
\* the last hotBlocksDepth blocks, the rows below are in the cold table, and
\* the cold checkpoint is the block hotBlocksDepth below the last block.
ScenarioKeepsDepthBlocks ==
  AtTipAfterCatchup =>
    LET k == ProducerHead(St) + 1
        n == options.migrationInterval + HotBlocksDepth
        end == k + n - 1
        s == OneBlockBatches(St, k, n)
    IN /\ \A t \in Tables :
            /\ HeightsOf(s.hot[t]) = (end - HotBlocksDepth + 1)..end
            /\ k..(end - HotBlocksDepth) \subseteq HeightsOf(s.cold[t])
       /\ s.coldStatus = <<[height |-> end - HotBlocksDepth,
                            hash |-> Hash(end - HotBlocksDepth, 1)]>>

\* C18: after migrationInterval one-block hot batches and hotBlocksDepth
\* further ones, the last migration ran at the last block m whose count from
\* the start is a multiple of migrationInterval: each hot table retains
\* exactly the rows of the blocks above m - hotBlocksDepth (hotBlocksDepth of
\* them only when m is the last block), the rows up to m - hotBlocksDepth are
\* in the cold table, and the cold checkpoint is block m - hotBlocksDepth.
ScenarioKeepsBlocksAboveCutoff ==
  AtTipAfterCatchup =>
    LET k == ProducerHead(St) + 1
        n == options.migrationInterval + HotBlocksDepth
        end == k + n - 1
        m == k - 1 + options.migrationInterval * (n \div options.migrationInterval)
        s == OneBlockBatches(St, k, n)
    IN /\ \A t \in Tables :
            /\ HeightsOf(s.hot[t]) = (m - HotBlocksDepth + 1)..end
            /\ k..(m - HotBlocksDepth) \subseteq HeightsOf(s.cold[t])
       /\ s.coldStatus = <<[height |-> m - HotBlocksDepth,
                            hash |-> Hash(m - HotBlocksDepth, 1)]>>
       /\ s.lastMigrationHeight = m - HotBlocksDepth
       /\ s.blocksSinceLastMigration = end - m

\* C18 witness: with the longer interval, a migration has run and a further
\* one-block batch has not triggered the next one: the hot table holds one
\* block more than hotBlocksDepth above the cold checkpoint.
HotZoneAboveDepth ==
  /\ last.op = "transactHot" /\ ~last.entered /\ isAtChainTip
  /\ options.migrationInterval = LongInterval
  /\ coldStatus # <<>> /\ lastMigrationHeight = coldStatus[1].height
  /\ blocksSinceLastMigration = 1
  /\ HeightsOf(hot[RepTable]) =
       (lastMigrationHeight + 1)..(lastMigrationHeight + HotBlocksDepth + 1)

\* The heights of f have no gap between the lowest and the highest.
NoGapIn(f) ==
  \A a \in DOMAIN f, b \in DOMAIN f : \A h \in a..b : h \in DOMAIN f

\* C21: at every batch boundary the heights of the valid-blocks registry, in
\* memory and in the table, are contiguous between the lowest and the
\* highest height.
RegistryContiguous ==
  ready => NoGapIn(validBlocks) /\ NoGapIn(regDb)

\* C22: after every transact and every transactHot that returned, an empty
\* hot batch that only advances the finalized height included, the live
\* checkpoint holds the in-memory hot chain and finalized height.
LiveCheckpointFollowsMemory ==
  last.op \in {"transact", "transactHot"} =>
    /\ getLastProcessedBlock(St).top = Sanitize(hotBlocks)
    /\ live # <<>> => live[1].finalized_height = finalizedHeight

\* The live states a caller may hand to saveStatus: a height and its hash,
\* a contiguous chain of hot blocks ending there, and a finalized height
\* (0 and values other than the in-memory one included).
LiveStates ==
  {[height |-> h, hash |-> Hash(h, v), top |-> NewBlocks(h - n + 1, n, v),
    finalizedHeight |-> <<f>>] :
     h \in Heights, v \in Forks, n \in 0..MaxBatch, f \in (-1)..MaxHeight}

\* C23: checkpoint round trip.  For every live state, in every reachable
\* state of the database object, loading after saveStatus(state) returns the
\* state (its hot blocks as {height, hash} pairs); and saving what was loaded
\* leaves the live checkpoint row as it was.
CheckpointRoundTrip ==
  ready =>
    /\ \A state \in LiveStates :
         getLastProcessedBlock(saveStatus(St, state)) = [state EXCEPT !.top = Sanitize(@)]
    /\ live # <<>> => saveStatus(St, getLastProcessedBlock(St)).live = live

PeerOps == {"peer.connect", "peer.setIsAtChainTip", "peer.transactHot"}

\* C24: processor isolation.  No operation of the first processor changes
\* the live checkpoint, the cold checkpoint or the registry of the second
\* one, or removes from a hot table a row that the second one flushed there.
ProcessorIsolation ==
  [][ last'.op \notin PeerOps =>
        /\ peer'.live = peer.live /\ peer'.coldStatus = peer.coldStatus
        /\ peer'.regDb = peer.regDb
        /\ \A t \in Tables : peer.rows[t] \cap hot[t] \subseteq hot'[t]
    ]_vars

\* The entries of the log for chunk c.
AttemptsOf(c) == {i \in DOMAIN flush.log : flush.log[i].chunk = c}

\* C25: insert retry.  At every point of the insert loop: a chunk has at
\* most MaxAttempts attempts, numbered 1, 2, ... in the order they were made;
\* after a transient error below the last attempt the loop goes on with the
\* same chunk; a transient error at the last attempt and any other error at
\* any attempt end the loop with the error (the batch fails); nothing is sent
\* for a chunk after its insert succeeded; and the loop is done exactly when
\* every chunk was inserted once.
InsertRetry ==
  LET log == flush.log
  IN /\ \A c \in 1..flush.chunks : Cardinality(AttemptsOf(c)) <= MaxAttempts
     /\ \A i \in DOMAIN log :
          /\ log[i].attempt = Cardinality({j \in AttemptsOf(log[i].chunk) : j <= i})
          /\ log[i].outcome = "ok" =>
               \A j \in DOMAIN log : j > i => log[j].chunk > log[i].chunk
          /\ (log[i].outcome = "transient" /\ log[i].attempt < MaxAttempts) =>
               /\ flush.status # "failed" \/ i < Len(log)
               /\ i < Len(log) => /\ log[i + 1].chunk = log[i].chunk
                                  /\ log[i + 1].attempt = log[i].attempt + 1
          /\ (log[i].outcome = "fatal"
                \/ (log[i].outcome = "transient" /\ log[i].attempt = MaxAttempts)) =>
               i = Len(log) /\ flush.status = "failed"
     /\ flush.status = "failed" =>
          Len(log) > 0 /\ log[Len(log)].outcome # "ok"
     /\ flush.status = "done" <=>
          \A c \in 1..flush.chunks :
            Cardinality({i \in AttemptsOf(c) : log[i].outcome = "ok"}) = 1

\* C25 witness: the second chunk failed at its third attempt after two
\* transient errors, and the first chunk, inserted at its second attempt, was
\* sent twice in all.
RetriedThenExhausted ==
  /\ flush.status = "failed" /\ flush.chunk = 2
  /\ Cardinality(AttemptsOf(1)) = 2
  /\ Cardinality(AttemptsOf(2)) = MaxAttempts
  /\ flush.log[Len(flush.log)].outcome = "transient"

\* The database after a hot batch b that transactHot handles as a reorg and
\* whose handleReorg persisted the removal but not the new blocks: nothing
\* but the registry table has changed since the last batch boundary.
AfterInterruptedReorg(b) ==
  LET newBlocks == NewBlocks(b.k, b.n, b.fork)
      s1 == advanceFinality(St, b.finalizedHead)
      r == handleReorgInterrupted(Reg(s1), findCommonAncestor(s1, newBlocks) + 1)
  IN [St EXCEPT !.regDb = r.db]

\* C26: reorg atomicity by recovery.  For every batch that is handled as a
\* reorg in a reachable state, if handleReorg stops after the removal, the
\* next connect() reconciles: it clears the registry and every hot table,
\* resumes from the cold cursor, and leaves an empty hot chain, so no block
\* of the hot chain is missing from the registry.
InterruptedReorgRecovers ==
  ready =>
    \A b \in HotBatches(St) :
      detectReorg(advanceFinality(St, b.finalizedHead), NewBlocks(b.k, b.n, b.fork)) =>
        \A nullOnEmpty \in BOOLEAN, truncFails \in SUBSET {t \in Tables : hot[t] # {}} :
          LET c == connect(Constructed(AfterInterruptedReorg(b)), nullOnEmpty, truncFails)
          IN /\ c.rolled
             /\ c.s.validBlocks = EmptyMap /\ c.s.regDb = EmptyMap
             /\ \A t \in Tables : c.s.hot[t] = {}
             /\ c.state.height = LoadedColdHeight(nullOnEmpty)
             /\ c.s.hotBlocks = <<>> /\ c.s.live[1].hot_blocks = <<>>

ColdBelowHot(h, c) ==
  \A t \in Tables : \A x \in c[t], y \in h[t] : x.height < y.height

\* C27: height ordering between zones.  After every step in which the table
\* loop of migrateHotToCold ran, manual or automatic, every row of each cold
\* table is strictly lower than every row of the hot table of the same name.
ZonesOrderedAfterMigration ==
  [][ last'.ran => ColdBelowHot(hot', cold') ]_vars

\* C28: inserts during migration are safe.  Whenever a manual migration of the
\* first processor would run its table loop and the second processor, at the
\* chain tip, flushes its next block into a hot table after the count or after
\* the copy of that table, the inserted row is still in the hot table or has
\* reached the cold table when the table's iteration ends.
InsertsDuringMigrationSafe ==
  (ready /\ peer.ready /\ peer.isAtChainTip /\ migrateHotToCold(St, NoFailure, 1).ran) =>
    \A t \in Tables, after \in {"count", "copy"}, k \in 0..PeerMaxHeight, v \in Forks :
      k = ProducerHead(PeerSt) + 1 =>
        LET rows == {[height |-> k, hash |-> Hash(k, v)]}
            s1 == migrateTableDuringInsert(St, t, migrateHotToCold(St, NoFailure, 1).cutoffHeight,
                                           rows, after)
        IN rows \subseteq s1.hot[t] \cup s1.cold[t]

\* The hot chain without the entries at or below the finalized height that
\* holds once the batch's finalized head has been taken into account.
UnfinalizedChain(finalizedHead) ==
  FilterAbove(hotBlocks, MaxOf({finalizedHeight, finalizedHead}))

\* C29: reorg detection.  For every hot batch offered in a reachable state,
\* the reorg phase of transactHot treats the batch as a reorg exactly when the
\* hot chain without its finalized entries and newBlocks are both non-empty
\* and the first new block is not above the tip of that chain; a first block
\* right above the tip is not a reorg, one at the tip's height is.
ReorgDeclaredIffNotAboveTip ==
  ready =>
    \A b \in HotBatches(St) :
      LET newBlocks == NewBlocks(b.k, b.n, b.fork)
          chain == UnfinalizedChain(b.finalizedHead)
          s1 == advanceFinality(St, b.finalizedHead)
          declared == reorgPhase(s1, newBlocks) # s1
          tip == chain[Len(chain)].height
      IN /\ declared <=> (chain # <<>> /\ newBlocks # <<>> /\ newBlocks[1].height <= tip)
         /\ (chain # <<>> /\ newBlocks # <<>> /\ newBlocks[1].height = tip + 1) => ~declared
         /\ (chain # <<>> /\ newBlocks # <<>> /\ newBlocks[1].height = tip) => declared

\* A batch whose first block has the height of the hot-chain tip has just been
\* handled as a reorg.
ReorgAtTipHeight ==
  /\ last.op = "transactHot" /\ last.reorg
  /\ hotBlocks # <<>> /\ hotBlocks[1].hash = Hash(hotBlocks[1].height, 2)
  /\ Len(hotBlocks) = 1 /\ hotBlocks[1].height \in DOMAIN regDb

\* The heights, not below the finalized height f, of the blocks that the hot
\* chain and newBlocks have in common (same height, same hash).
SharedHeights(f, newBlocks) ==
  {hotBlocks[i].height : i \in {j \in DOMAIN hotBlocks :
      /\ hotBlocks[j].height >= f
      /\ \E n \in DOMAIN newBlocks : newBlocks[n] = hotBlocks[j]}}

\* C30: common ancestor.  For the hot chain of every reachable state, every
\* finalized height f and every newBlocks list, findCommonAncestor returns the
\* highest height >= f of a block present in both with the same hash, returns
\* f when there is none, and never returns less than f.
CommonAncestorIsHighestShared ==
  ready =>
    \A f \in (-1)..MaxHeight, b \in AnyBatches :
      LET newBlocks == NewBlocks(b.k, b.n, b.fork)
          ancestorHeight == findCommonAncestor([St EXCEPT !.finalizedHeight = f], newBlocks)
          shared == SharedHeights(f, newBlocks)
      IN /\ ancestorHeight >= f
         /\ shared = {} => ancestorHeight = f
         /\ shared # {} => ancestorHeight = MaxOf(shared)

\* A hot chain of two blocks: a newBlocks list that repeats both has its
\* common ancestor at the higher one, above the finalized height.
TwoSharedBlocks ==
  /\ ready /\ Len(hotBlocks) = 2 /\ hotBlocks[1].height > finalizedHeight
  /\ \E b \in AnyBatches :
       /\ SharedHeights(finalizedHeight, NewBlocks(b.k, b.n, b.fork)) = {hotBlocks[1].height, hotBlocks[2].height}
       /\ findCommonAncestor(St, NewBlocks(b.k, b.n, b.fork)) = hotBlocks[2].height

\* What a state shows of block b of a batch for the tables tabs.
Flushed(s, b, tabs) ==
  \A t \in tabs : [height |-> b.height, hash |-> b.hash] \in s.ingested[t]
Registered(s, b) == b.height \in DOMAIN s.regDb /\ s.regDb[b.height] = b.hash
Appended(s, b) == \E i \in DOMAIN s.hotBlocks : s.hotBlocks[i] = b

\* C31: hot batch ordering.  In the step-by-step run of every hot batch
\* offered in a reachable state: no callback starts before the reorg steps are
\* over; a block is registered only once its rows are flushed, appended only
\* once it is registered, and the next block's callback starts only after the
\* append; the live checkpoint is written after the last append, and
\* performMigration starts only after the live checkpoint was written.
\* (A failing step ends the run, so the steps done are a prefix of the list.)
HotBatchOrdering ==
  ready =>
    \A b \in HotBatches(St), tabs \in TabChoices :
      LET newBlocks == NewBlocks(b.k, b.n, b.fork)
          steps == hotBatchSteps(St, b.finalizedHead, newBlocks, tabs, NoFailure, 1, TRUE)
      IN /\ After(steps, St) = transactHot(St, b.finalizedHead, newBlocks, tabs, NoFailure, 1, TRUE).s
         /\ \A p \in DOMAIN steps, q \in DOMAIN steps :
              (steps[p].step = "callback" /\ steps[q].step \in {"reorg.remove", "reorg.addBlocks", "reorg.reset"})
                => q < p
         /\ \A p \in DOMAIN steps, i \in DOMAIN newBlocks :
              /\ Registered(steps[p].s, newBlocks[i]) => Flushed(steps[p].s, newBlocks[i], tabs)
              /\ Appended(steps[p].s, newBlocks[i]) => Registered(steps[p].s, newBlocks[i])
              /\ (steps[p].step = "callback" /\ steps[p].i = i + 1) => Appended(steps[p].s, newBlocks[i])
              /\ steps[p].step = "saveStatus" => Appended(steps[p - 1].s, newBlocks[i])
         /\ \A p \in DOMAIN steps :
              steps[p].step = "performMigration" => \E q \in 1..(p - 1) : steps[q].step = "saveStatus"

\* The finalized batches the producer may deliver in the current state.
FinalHeads ==
  {Block(h, 1) : h \in {g \in Heights : /\ g > finalizedHeight /\ g > ProducerHead(St)
                                        /\ g <= ProducerHead(St) + MaxBatch}}

\* C32: finalized batch ordering.  For every finalized batch offered in a
\* reachable state, transact runs the callback once, then the flush, then sets
\* finalizedHeight to nextHead.height, then writes the live checkpoint with
\* the height and hash of nextHead, and that is the state it returns with; up
\* to and including the flush the live checkpoint is untouched, so a callback
\* or flush that throws leaves it unwritten.
FinalBatchOrdering ==
  ready =>
    \A nextHead \in FinalHeads, tabs \in TabChoices :
      LET steps == finalBatchSteps(St, nextHead, tabs)
          end == After(steps, St)
      IN /\ [p \in DOMAIN steps |-> steps[p].step]
              = <<"callback", "flush", "finalizedHeight", "saveStatus">>
         /\ end = transact(St, nextHead, tabs)
         /\ end.finalizedHeight = nextHead.height
         /\ end.live[1].height = nextHead.height /\ end.live[1].hash = nextHead.hash
         /\ \A p \in DOMAIN steps :
              /\ steps[p].s.finalizedHeight # finalizedHeight => Flushed(steps[p].s, nextHead, tabs)
              /\ steps[p].s.live # live =>
                    /\ steps[p].step = "saveStatus"
                    /\ steps[p].s.finalizedHeight = nextHead.height
                    /\ Flushed(steps[p].s, nextHead, tabs)

\* A finalized batch has just returned: its rows are flushed and the live
\* checkpoint names its head.
FinalBatchSaved ==
  /\ last.op = "transact" /\ live # <<>>
  /\ live[1].height = finalizedHeight
  /\ \A t \in Tables : [height |-> live[1].height, hash |-> live[1].hash] \in ingested[t]

\* C33: hot-chain length cap.  After a transactHot the hot chain in memory and
\* the hot_blocks of the live row have at most hotBlocksDepth entries; and for
\* every hot batch offered in a reachable state the chain it ends with is the
\* tail of the chain as it was after the last append (hotBlocksDepth entries
\* when that one was longer), saved as such when the batch is not empty.
HotChainCapped ==
  /\ last.op = "transactHot" =>
        /\ Len(hotBlocks) <= HotBlocksDepth
        /\ live # <<>> => Len(live[1].hot_blocks) <= HotBlocksDepth
  /\ ready =>
        \A b \in HotBatches(St), tabs \in TabChoices :
          LET newBlocks == NewBlocks(b.k, b.n, b.fork)
              steps == hotBatchSteps(St, b.finalizedHead, newBlocks, tabs, NoFailure, 1, TRUE)
              d == CHOOSE p \in DOMAIN steps : steps[p].step = "depth"
              before == steps[d - 1].s.hotBlocks
              kept == After(steps, St).hotBlocks
          IN /\ Len(kept) = IF Len(before) > HotBlocksDepth THEN HotBlocksDepth ELSE Len(before)
             /\ \A i \in DOMAIN kept : kept[i] = before[Len(before) - Len(kept) + i]
             /\ Len(newBlocks) > 0 => After(steps, St).live[1].hot_blocks = Sanitize(kept)

\* A hot batch has just dropped the oldest entry of a chain that was longer
\* than hotBlocksDepth: the block below the chain is not finalized.
OldestEntryDropped ==
  /\ last.op = "transactHot" /\ Len(hotBlocks) = HotBlocksDepth
  /\ hotBlocks[1].height - 1 > finalizedHeight
  /\ live[1].hot_blocks = Sanitize(hotBlocks)

\* C34: per-table migration protocol.  For the table loop of a migration that
\* would run in a reachable state, whichever step throws in whichever tables:
\* a row leaves a hot table only if it is in the cold table of the same name
\* afterwards; rows above the cutoff are neither copied nor deleted; a table
\* whose steps all succeed is migrated in full, whatever happened to the
\* other tables; and a table whose copy throws is left as it was.
PerTableProtocol ==
  (ready /\ migrateHotToCold(St, NoFailure, 1).ran) =>
    \A fails \in [Tables -> {"none", "copy", "delete"}] :
      LET cutoffHeight == migrateHotToCold(St, NoFailure, 1).cutoffHeight
          s1 == migrateTables(St, Tables, cutoffHeight, fails)
      IN \A t \in Tables :
           /\ hot[t] \ s1.hot[t] \subseteq s1.cold[t]
           /\ hot[t] \ RowsUpTo(hot[t], cutoffHeight) \subseteq s1.hot[t]
           /\ s1.hot[t] \subseteq hot[t]
           /\ s1.cold[t] \ cold[t] \subseteq RowsUpTo(hot[t], cutoffHeight)
           /\ fails[t] = "none" =>
                 /\ s1.hot[t] = hot[t] \ RowsUpTo(hot[t], cutoffHeight)
                 /\ s1.cold[t] = cold[t] \cup RowsUpTo(hot[t], cutoffHeight)
           /\ fails[t] = "copy" => s1.hot[t] = hot[t] /\ s1.cold[t] = cold[t]
           /\ fails[t] = "delete" => s1.hot[t] = hot[t]

\* A migration has just run in which the copy of one table threw and another
\* table was migrated.
OneTableSkipped ==
  /\ last.ran
  /\ \E t \in Tables, u \in Tables :
       /\ RowsUpTo(hot[t], lastMigrationHeight) # {} /\ cold[t] = {}
       /\ RowsUpTo(hot[u], lastMigrationHeight) = {} /\ cold[u] # {}

\* Blocks that are on the canonical chain for certain: those of the hot chain
\* and the head named by the live checkpoint.
KnownCanonical ==
  {hotBlocks[i] : i \in DOMAIN hotBlocks}
    \cup (IF live = <<>> THEN {} ELSE {[height |-> live[1].height, hash |-> live[1].hash]})

\* C35: canonical rows stay visible.  At every batch boundary every ingested
\* row of a block of the hot chain or of the head of the live checkpoint
\* passes the registry filter evaluated with currentHeight = live.height.
CanonicalRowsVisible ==
  (ready /\ live # <<>>) =>
    \A t \in Tables : \A row \in ingested[t] :
      row \in KnownCanonical => buildValidBlocksFilter(Reg(St), live[1].height, row)

\* Two rows of one height with different hashes: at most one of them belongs
\* to the canonical chain.
Rivals(x, y) == x.height = y.height /\ x.hash # y.hash

\* C36: orphaned rows never reach the cold zone.  In no step in which the
\* table loop of migrateHotToCold ran does a cold table receive two rows of
\* the same height with different hashes, one of which is then the row of a
\* block replaced by a reorg.
NoOrphanMigrated ==
  [][ last'.ran =>
        \A t \in Tables : \A x \in cold'[t] \ cold[t], y \in cold'[t] \ cold[t] :
          ~Rivals(x, y) ]_vars

\* C37: cold tables only receive finalized data.  A transactHot in which no
\* migration ran leaves every cold table as it was: the rows of its
\* unfinalized blocks are not written to a cold table, whatever the
\* setIsAtChainTip calls before it.
HotBatchWritesNoColdRow ==
  [][ (last'.op = "transactHot" /\ ~last'.ran) => cold' = cold ]_vars

\* C38: the persisted cold checkpoint height never decreases.  No step
\* replaces the cold status row by one with a lower height.
ColdCheckpointMonotonic ==
  [][ (coldStatus # <<>> /\ coldStatus' # <<>>) =>
        coldStatus'[1].height >= coldStatus[1].height ]_vars

\* The steps of a hot batch after which the live checkpoint of the batch is
\* not yet written: a crash or a throw right after one of them.
BeforeSave(steps) ==
  {p \in DOMAIN steps :
     \A q \in 1..p : steps[q].step \notin {"saveStatus", "trigger", "performMigration"}}

\* C39: recovery leaves no residue above the resume point.  For every hot
\* batch offered in a reachable state and every step before its saveStatus:
\* if the process stops right after that step, then after the next connect()
\* the registry has no entry and the hot tables have no row above the height
\* connect() returns.
NoResidueAfterRecovery ==
  ready =>
    \A b \in HotBatches(St), tabs \in TabChoices :
      LET steps == hotBatchSteps(St, b.finalizedHead, NewBlocks(b.k, b.n, b.fork),
                                 tabs, NoFailure, 1, TRUE)
      IN \A p \in BeforeSave(steps) :
           \A nullOnEmpty \in BOOLEAN, truncFails \in SUBSET {t \in Tables : steps[p].s.hot[t] # {}} :
             LET c == connect(Constructed(steps[p].s), nullOnEmpty, truncFails)
             IN /\ \A h \in DOMAIN c.s.regDb \cup DOMAIN c.s.validBlocks : h <= c.state.height
                /\ \A t \in Tables : \A row \in c.s.hot[t] : row.height <= c.state.height

\* C40: transactHot2 processes a batch once.  For every non-empty hot batch
\* offered in a reachable state, transactHot2 calls the slice callback once,
\* flushes the rows of each block once, and ends with the hot chain, registry
\* and live checkpoint that transactHot ends with.
SliceProcessedOnce ==
  ready =>
    \A b \in HotBatches(St), tabs \in TabChoices :
      LET newBlocks == NewBlocks(b.k, b.n, b.fork)
          steps == hotBatch2Steps(St, b.finalizedHead, newBlocks, tabs, NoFailure, 1, TRUE)
          end == After(steps, St)
          same == transactHot(St, b.finalizedHead, newBlocks, tabs, NoFailure, 1, TRUE).s
      IN b.n > 0 =>
           /\ Cardinality({p \in DOMAIN steps : steps[p].step = "callback"}) = 1
           /\ \A j \in DOMAIN newBlocks :
                Cardinality({p \in DOMAIN steps : steps[p].step = "flush" /\ steps[p].i = j}) = 1
           /\ end.hotBlocks = same.hotBlocks /\ end.live = same.live
           /\ end.validBlocks = same.validBlocks /\ end.regDb = same.regDb


====
